---- MODULE Spec2Model ----
(***************************************************************************)
(* A model of package breader (BufferedReader.go): one chunker goroutine   *)
(* started by run(), the output channel reader.Ch, the done channel closed *)
(* by Cancel(), the goroutines that call Cancel(), and a consumer that     *)
(* receives from reader.Ch.                                                *)
(*                                                                         *)
(* The file is a sequence of bytes.  A byte is one of the one-character    *)
(* strings below; "\n" is the line delimiter given to ReadString.          *)
(***************************************************************************)
EXTENDS Integers, Sequences, FiniteSets, TLC

\* ------------------------------------------------------------------ bounds
MaxLines == 2      \* newline-terminated lines in the file
MaxBuffer == 2     \* largest bufferSize argument
MaxChunk == 2      \* largest chunkSize argument

NL == "\n"
TAB == "\t"

\* The lines a file is built from (without their delimiter): a well-formed
\* record, a record whose second field is not a number, a comment.
LineTexts == { <<"a", TAB, "1">>, <<"b", TAB, "x">>, <<"#">> }

\* What may follow the last delimiter: nothing, or a line without delimiter
\* (one whose second field is not a number).
PartialLine == <<"d", TAB, "x">>
TailTexts == { <<>>, PartialLine }

\* error values (the error field of Chunk, the second result of ReadString)
NoErr == "nil"
EOF == "io.EOF"
ReadFailure == "read failure"
AtoiFailure == "strconv.Atoi: invalid syntax"
AtoiRangeFailure == "strconv.Atoi: value out of range"
ErrorCanceled == "reading canceled"

\* the zero value of an interface{} slot made by make([]interface{}, n)
NilValue == <<"nil">>

RECURSIVE SeqsUpTo(_, _)
SeqsUpTo(S, n) ==
    IF n = 0 THEN { <<>> }
    ELSE LET shorter == SeqsUpTo(S, n - 1)
         IN  shorter \cup { Append(s, x) : s \in shorter, x \in S }

RECURSIVE JoinLines(_)
JoinLines(ls) ==
    IF ls = <<>> THEN <<>>
    ELSE Head(ls) \o <<NL>> \o JoinLines(Tail(ls))

\* ------------------------------------------------------- pure functions

\* strings.TrimRight(line, "\n")
RECURSIVE TrimRight(_)
TrimRight(s) ==
    IF s # <<>> /\ s[Len(s)] = NL THEN TrimRight(SubSeq(s, 1, Len(s) - 1))
    ELSE s

\* strings.Split(s, sep) for a one-byte separator: the fields of s from byte
\* k on, cur being the bytes of the field begun before k
RECURSIVE SplitFrom(_, _, _, _)
SplitFrom(s, sep, k, cur) ==
    IF k > Len(s) THEN <<cur>>
    ELSE IF s[k] = sep THEN <<cur>> \o SplitFrom(s, sep, k + 1, <<>>)
    ELSE SplitFrom(s, sep, k + 1, Append(cur, s[k]))

Split(s, sep) == SplitFrom(s, sep, 1, <<>>)

Digits == { "0", "1", "2", "3", "4", "5", "6", "7", "8", "9" }
DigitValue(c) ==
    CASE c = "0" -> 0 [] c = "1" -> 1 [] c = "2" -> 2 [] c = "3" -> 3 [] c = "4" -> 4
      [] c = "5" -> 5 [] c = "6" -> 6 [] c = "7" -> 7 [] c = "8" -> 8 [] c = "9" -> 9

\* the text without its sign, and whether the sign is '-'
Unsigned(s) == IF s # <<>> /\ s[1] \in { "+", "-" } THEN Tail(s) ELSE s
Negative(s) == s # <<>> /\ s[1] = "-"

\* the value of decimal digits
RECURSIVE Magnitude(_)
Magnitude(d) ==
    IF d = <<>> THEN 0
    ELSE 10 * Magnitude(SubSeq(d, 1, Len(d) - 1)) + DigitValue(d[Len(d)])

\* the largest magnitudes of a 64-bit int: 1<<63 - 1, and 1<<63 below zero
MaxIntDigits == << "9", "2", "2", "3", "3", "7", "2", "0", "3", "6",
                   "8", "5", "4", "7", "7", "5", "8", "0", "7" >>
MinIntDigits == << "9", "2", "2", "3", "3", "7", "2", "0", "3", "6",
                   "8", "5", "4", "7", "7", "5", "8", "0", "8" >>

RECURSIVE StripZeros(_)
StripZeros(d) == IF Len(d) > 1 /\ d[1] = "0" THEN StripZeros(Tail(d)) ELSE d

\* digits a and b of one length: a <= b as numbers
RECURSIVE DigitsLeq(_, _)
DigitsLeq(a, b) ==
    IF a = <<>> THEN TRUE
    ELSE IF DigitValue(a[1]) < DigitValue(b[1]) THEN TRUE
    ELSE IF DigitValue(a[1]) > DigitValue(b[1]) THEN FALSE
    ELSE DigitsLeq(Tail(a), Tail(b))

\* the number written by digits d is at most the one written by limit
MagnitudeFits(d, limit) ==
    \/ Len(d) < Len(limit)
    \/ LET m == StripZeros(d)
       IN  Len(m) < Len(limit) \/ (Len(m) = Len(limit) /\ DigitsLeq(m, limit))

\* the largest uint64, 1<<64 - 1: what ParseUint can hold
MaxUintDigits == << "1", "8", "4", "4", "6", "7", "4", "4", "0", "7",
                    "3", "7", "0", "9", "5", "5", "1", "6", "1", "5" >>

\* the decimal digits d begins with, up to its first other byte
RECURSIVE DigitPrefix(_)
DigitPrefix(d) ==
    IF d = <<>> \/ d[1] \notin Digits THEN <<>>
    ELSE <<d[1]>> \o DigitPrefix(Tail(d))

\* the error of strconv.Atoi.  The text after the sign is scanned from the
\* left: a byte that is not a digit is a syntax error, unless the digits
\* before it already overflow a uint64, which is a range error found first;
\* digits alone must also fit a 64-bit int.
AtoiErr(s) ==
    IF Unsigned(s) = <<>> THEN AtoiFailure
    ELSE IF ~MagnitudeFits(DigitPrefix(Unsigned(s)), MaxUintDigits) THEN AtoiRangeFailure
    ELSE IF Len(DigitPrefix(Unsigned(s))) < Len(Unsigned(s)) THEN AtoiFailure
    ELSE IF ~MagnitudeFits(Unsigned(s), IF Negative(s) THEN MinIntDigits ELSE MaxIntDigits)
    THEN AtoiRangeFailure
    ELSE NoErr

\* strconv.Atoi returns a nil error
AtoiOk(s) == AtoiErr(s) = NoErr

\* the value of strconv.Atoi when the error is nil
AtoiValue(s) ==
    IF Negative(s) THEN 0 - Magnitude(Unsigned(s)) ELSE Magnitude(Unsigned(s))

\* DefaultFunc: trims the new line symbol and keeps every line
DefaultFunc(l) == [result |-> TrimRight(l), ok |-> TRUE, err |-> NoErr]

\* the transform of the documentation's third example: builds string2int{id, value}
\* (t is the trimmed line and items its fields, each computed once)
String2IntFunc(l) ==
    CHOOSE out \in
        { IF t = <<>> \/ t[1] = "#"
          THEN [result |-> NilValue, ok |-> FALSE, err |-> NoErr]
          ELSE IF Len(items) # 2
          THEN [result |-> NilValue, ok |-> FALSE, err |-> NoErr]
          ELSE IF items[1] = <<>> \/ items[2] = <<>>
          THEN [result |-> NilValue, ok |-> FALSE, err |-> NoErr]
          ELSE IF ~AtoiOk(items[2])
          THEN [result |-> NilValue, ok |-> FALSE, err |-> AtoiErr(items[2])]
          ELSE [result |-> <<items[1], AtoiValue(items[2])>>, ok |-> TRUE, err |-> NoErr]
          : t \in { TrimRight(l) }, items \in { Split(TrimRight(l), TAB) } } : TRUE

FuncNames == { "DefaultFunc", "String2IntFunc" }

\* reader.ProcessFunc(line)
ProcessFunc(f, l) ==
    IF f = "DefaultFunc" THEN DefaultFunc(l) ELSE String2IntFunc(l)

\* reader.reader.ReadString('\n') at offset p of file s whose end reports e:
\* the bytes up to and including the next delimiter, or the rest and e.
ReadString(s, p, e) ==
    IF \E k \in (p + 1)..Len(s) : s[k] = NL
    THEN LET k == CHOOSE k \in (p + 1)..Len(s) :
                      s[k] = NL /\ \A j \in (p + 1)..(k - 1) : s[j] # NL
         IN  [line |-> SubSeq(s, p + 1, k), err |-> NoErr, pos |-> k]
    ELSE [line |-> SubSeq(s, p + 1, Len(s)), err |-> e, pos |-> Len(s)]

\* make([]interface{}, n)
MakeChunkData(n) == [k \in 0..(n - 1) |-> NilValue]

\* chunkData[0:i]
Slice(data, n) == [k \in 1..n |-> data[k - 1]]

\* ClampBufferSize with a minimum of 1
ClampBufferSize_ToOne(b) == IF b < 1 THEN 1 ELSE b

\* initBufferedReader's clamping of its two numeric arguments
ClampBufferSize(b) == IF b < 0 THEN 0 ELSE b
ClampChunkSize(c) == IF c < 1 THEN 1 ELSE c


\* ------------------------------------------------------------------ state
VARIABLES
    bufferSizeArg,  \* the bufferSize argument of NewBufferedReader
    chunkSizeArg,   \* the chunkSize argument of NewBufferedReader
    stream,         \* the bytes of the file behind reader.reader
    ending,         \* what ReadString reports at the end: io.EOF or a failure
    fn,             \* reader.ProcessFunc
    BufferSize,     \* reader.BufferSize, the capacity of reader.Ch
    ChunkSize,      \* reader.ChunkSize
    NumCallers,     \* goroutines that call Cancel()
    pos,            \* read offset of reader.reader
    readerClosed,   \* calls of reader.reader.Close() so far
    Ch,             \* chunks buffered in reader.Ch
    chClosed,       \* close(reader.Ch) executed so far
    doneClosed,     \* close(reader.done) executed so far
    finished,       \* reader.finished
    cancelled,      \* reader.cancelled
    panicked,       \* a goroutine has panicked: the process is gone
    pc,             \* position of the goroutine started by run()
    i, id, chunkData, line, err,   \* its local variables
    pending,        \* the chunk of the send statement it stands at
    site,           \* which send statement that is
    cpc,            \* position of each caller of Cancel()
    wrote,          \* callers that have assigned reader.cancelled
    lateCall,       \* history: the caller's current call began after the consumer saw the close
    inFlight,       \* history: calls of ProcessFunc entered and not yet returned
    afterDone,      \* history: calls of ReadString and ProcessFunc made with done closed,
                    \*          kept while the goroutine is in its loop
    received,       \* chunks the consumer has received, in order
    sawClose,       \* the consumer has seen reader.Ch closed
    sentLog,        \* history: every chunk sent, and whether a Cancel() had returned
    cancelReturned  \* history: some call of Cancel() closed done and returned

NoCalls == [reads |-> 0, calls |-> 0]

inputVars == <<bufferSizeArg, chunkSizeArg, stream, ending, fn, BufferSize, ChunkSize, NumCallers>>
chunkerVars == <<pc, i, id, chunkData, line, err, pending, site, pos, inFlight, afterDone>>
sharedVars == <<Ch, chClosed, doneClosed, finished, cancelled, readerClosed, panicked>>
callerVars == <<cpc, wrote, lateCall, cancelReturned>>
consumerVars == <<received, sawClose>>
vars == <<inputVars, chunkerVars, sharedVars, callerVars, consumerVars, sentLog>>

MaxCallers == 2
Callers == 1..NumCallers

\* Chunk{ID, Data, Err}
Chunk(n, data, e) == [ID |-> n, Data |-> data, Err |-> e]

\* the files that end as e: at io.EOF after any tail, at a read failure in
\* the middle of a line
Files(e) ==
    { JoinLines(ls) \o t : ls \in SeqsUpTo(LineTexts, MaxLines),
                           t \in IF e = EOF THEN TailTexts ELSE { PartialLine } }

\* NewBufferedReader called with a bufferSize of B and a chunkSize of C, and
\* n goroutines that will call Cancel(): initBufferedReader, then run() has
\* started the goroutine
InitWith(n, B, C) ==
    /\ ending \in { EOF, ReadFailure }
    /\ stream \in Files(ending)
    /\ fn \in FuncNames
    /\ bufferSizeArg \in B
    /\ chunkSizeArg \in C
    /\ BufferSize = ClampBufferSize(bufferSizeArg)
    /\ ChunkSize = ClampChunkSize(chunkSizeArg)
    /\ NumCallers = n
    /\ pos = 0
    /\ readerClosed = 0
    /\ Ch = <<>>
    /\ chClosed = 0
    /\ doneClosed = 0
    /\ finished = FALSE
    /\ cancelled = FALSE
    /\ panicked = FALSE
    /\ pc = "select"
    /\ i = 0
    /\ id = 0
    /\ chunkData = MakeChunkData(ChunkSize)
    /\ line = <<>>
    /\ err = NoErr
    /\ pending = Chunk(0, <<>>, NoErr)
    /\ site = "none"
    /\ cpc = [c \in 1..n |-> "idle"]
    /\ wrote = {}
    /\ lateCall = [c \in 1..n |-> FALSE]
    /\ inFlight = 0
    /\ afterDone = NoCalls
    /\ received = <<>>
    /\ sawClose = FALSE
    /\ sentLog = <<>>
    /\ cancelReturned = FALSE

\* the arguments initBufferedReader leaves as they are
BufferSizes == 0..MaxBuffer
ChunkSizes == 1..MaxChunk

\* all arguments, those initBufferedReader replaces included
BufferSizeArgs == -2..MaxBuffer
ChunkSizeArgs == -1..MaxChunk

Init == InitWith(1, BufferSizes, ChunkSizes)
InitConcurrent == InitWith(MaxCallers, BufferSizes, ChunkSizes)
InitAnyArgs == InitWith(1, BufferSizeArgs, ChunkSizeArgs)

\* ------------------------------------------------- the goroutine of run()

\* the send statement is reached with chunk c; s names the statement
GoSend(c, s) ==
    /\ pending' = c
    /\ site' = s
    /\ pc' = "send"

\* the goroutine has left the loop for the send statement of an exit path
LeavesLoop(p, s) == p = "send" /\ s # "full"

\* the calls counted from close(reader.done) on: r more of ReadString, c more
\* of ProcessFunc
Counted(r, c) ==
    IF doneClosed > 0
    THEN [reads |-> afterDone.reads + r, calls |-> afterDone.calls + c]
    ELSE afterDone

\* SelectDone without the case <-reader.done: the default branch, always
SelectDone_NoCheck ==
    /\ ~panicked
    /\ pc = "select"
    /\ pc' = "read"
    /\ UNCHANGED <<pending, site>>
    /\ afterDone' = IF LeavesLoop(pc', site') THEN NoCalls ELSE afterDone
    /\ UNCHANGED <<i, id, chunkData, line, err, pos, inFlight>>
    /\ UNCHANGED <<inputVars, sharedVars, callerVars, consumerVars, sentLog>>

\* SelectDone sending the cancellation chunk without the partial buffer
SelectDone_EmptyCancelChunk ==
    /\ ~panicked
    /\ pc = "select"
    /\ IF doneClosed > 0 /\ ~finished
       THEN GoSend(Chunk(id, <<>>, ErrorCanceled), "cancel")
       ELSE /\ pc' = "read"
            /\ UNCHANGED <<pending, site>>
    /\ afterDone' = IF LeavesLoop(pc', site') THEN NoCalls ELSE afterDone
    /\ UNCHANGED <<i, id, chunkData, line, err, pos, inFlight>>
    /\ UNCHANGED <<inputVars, sharedVars, callerVars, consumerVars, sentLog>>

\* SelectDone polling reader.done only between chunks, when the buffer is empty
SelectDone_PollsBetweenChunks ==
    /\ ~panicked
    /\ pc = "select"
    /\ IF doneClosed > 0 /\ ~finished /\ i = 0
       THEN GoSend(Chunk(id, Slice(chunkData, i), ErrorCanceled), "cancel")
       ELSE /\ pc' = "read"
            /\ UNCHANGED <<pending, site>>
    /\ afterDone' = IF LeavesLoop(pc', site') THEN NoCalls ELSE afterDone
    /\ UNCHANGED <<i, id, chunkData, line, err, pos, inFlight>>
    /\ UNCHANGED <<inputVars, sharedVars, callerVars, consumerVars, sentLog>>

\* select { case <-reader.done: ... default: }
SelectDone ==
    /\ ~panicked
    /\ pc = "select"
    /\ IF doneClosed > 0 /\ ~finished
       THEN GoSend(Chunk(id, Slice(chunkData, i), ErrorCanceled), "cancel")
       ELSE /\ pc' = "read"
            /\ UNCHANGED <<pending, site>>
    /\ afterDone' = IF LeavesLoop(pc', site') THEN NoCalls ELSE afterDone
    /\ UNCHANGED <<i, id, chunkData, line, err, pos, inFlight>>
    /\ UNCHANGED <<inputVars, sharedVars, callerVars, consumerVars, sentLog>>

\* Read treating every error of ReadString as io.EOF
Read_FailureAsEOF ==
    /\ ~panicked
    /\ pc = "read"
    /\ \E r \in { ReadString(stream, pos, ending) } :
           /\ line' = r.line
           /\ err' = r.err
           /\ pos' = r.pos
           /\ afterDone' = Counted(1, 0)
           /\ pc' = IF r.err = NoErr THEN "call" ELSE "callEOF"
           /\ UNCHANGED <<pending, site>>
    /\ UNCHANGED <<i, id, chunkData, inFlight>>
    /\ UNCHANGED <<inputVars, sharedVars, callerVars, consumerVars, sentLog>>

\* line, err = reader.reader.ReadString('\n'), and the branch on err
Read ==
    /\ ~panicked
    /\ pc = "read"
    /\ \E r \in { ReadString(stream, pos, ending) } :
           /\ line' = r.line
           /\ err' = r.err
           /\ pos' = r.pos
           /\ afterDone' = Counted(1, 0)
           /\ IF r.err = NoErr
              THEN /\ pc' = "call"
                   /\ UNCHANGED <<pending, site>>
              ELSE IF r.err = EOF
              THEN /\ pc' = "callEOF"
                   /\ UNCHANGED <<pending, site>>
              ELSE GoSend(Chunk(id, Slice(chunkData, i), r.err), "readErr")
    /\ UNCHANGED <<i, id, chunkData, inFlight>>
    /\ UNCHANGED <<inputVars, sharedVars, callerVars, consumerVars, sentLog>>

\* Call handing the line to ProcessFunc in a goroutine of its own
\* (`go reader.ProcessFunc(line)`) and going on with the loop
Call_Async ==
    /\ ~panicked
    /\ pc \in { "call", "callEOF" }
    /\ inFlight' = inFlight + 1
    /\ afterDone' = Counted(0, 1)
    /\ pc' = IF pc = "call" THEN "select" ELSE "processEOF"
    /\ UNCHANGED <<i, id, chunkData, line, err, pending, site, pos>>
    /\ UNCHANGED <<inputVars, sharedVars, callerVars, consumerVars, sentLog>>

\* reader.ProcessFunc(line) is called: the transform runs until Process, or
\* ProcessEOF on the io.EOF path, takes its results
Call ==
    /\ ~panicked
    /\ pc \in { "call", "callEOF" }
    /\ inFlight' = inFlight + 1
    /\ afterDone' = Counted(0, 1)
    /\ pc' = IF pc = "call" THEN "process" ELSE "processEOF"
    /\ UNCHANGED <<i, id, chunkData, line, err, pending, site, pos>>
    /\ UNCHANGED <<inputVars, sharedVars, callerVars, consumerVars, sentLog>>

\* chunkData[i] = result; i++   (an index outside the slice panics)
Store(result) ==
    IF i < ChunkSize
    THEN /\ chunkData' = [chunkData EXCEPT ![i] = result]
         /\ i' = i + 1
         /\ UNCHANGED panicked
    ELSE /\ panicked' = TRUE
         /\ UNCHANGED <<chunkData, i>>

\* Process sending an empty Data list with the transform's error
Process_ErrDropsBuffer ==
    /\ ~panicked
    /\ pc = "process"
    /\ \E r \in { ProcessFunc(fn, line) } :
           IF r.err # NoErr
           THEN /\ GoSend(Chunk(id, <<>>, r.err), "procErr")
                /\ UNCHANGED <<chunkData, i, panicked>>
           ELSE /\ IF r.ok THEN Store(r.result)
                           ELSE UNCHANGED <<chunkData, i, panicked>>
                /\ IF ~panicked' /\ i' = ChunkSize
                   THEN GoSend(Chunk(id, Slice(chunkData', i'), NoErr), "full")
                   ELSE pc' = "select" /\ UNCHANGED <<pending, site>>
    /\ inFlight' = inFlight - 1
    /\ afterDone' = IF LeavesLoop(pc', site') THEN NoCalls ELSE afterDone
    /\ UNCHANGED <<id, line, err, pos>>
    /\ UNCHANGED <<inputVars, Ch, chClosed, doneClosed, finished, cancelled, readerClosed>>
    /\ UNCHANGED <<callerVars, consumerVars, sentLog>>

\* Process without the test of ok: the result of a skipped line is stored too
Process_SkippedStored ==
    /\ ~panicked
    /\ pc = "process"
    /\ \E r \in { ProcessFunc(fn, line) } :
           IF r.err # NoErr
           THEN /\ GoSend(Chunk(id, Slice(chunkData, i), r.err), "procErr")
                /\ UNCHANGED <<chunkData, i, panicked>>
           ELSE /\ Store(r.result)
                /\ IF ~panicked' /\ i' = ChunkSize
                   THEN GoSend(Chunk(id, Slice(chunkData', i'), NoErr), "full")
                   ELSE pc' = "select" /\ UNCHANGED <<pending, site>>
    /\ inFlight' = inFlight - 1
    /\ afterDone' = IF LeavesLoop(pc', site') THEN NoCalls ELSE afterDone
    /\ UNCHANGED <<id, line, err, pos>>
    /\ UNCHANGED <<inputVars, Ch, chClosed, doneClosed, finished, cancelled, readerClosed>>
    /\ UNCHANGED <<callerVars, consumerVars, sentLog>>

\* the body of the loop after a successful read
Process ==
    /\ ~panicked
    /\ pc = "process"
    /\ \E r \in { ProcessFunc(fn, line) } :
           IF r.err # NoErr
           THEN /\ GoSend(Chunk(id, Slice(chunkData, i), r.err), "procErr")
                /\ UNCHANGED <<chunkData, i, panicked>>
           ELSE /\ IF r.ok THEN Store(r.result)
                           ELSE UNCHANGED <<chunkData, i, panicked>>
                /\ IF ~panicked' /\ i' = ChunkSize
                   THEN GoSend(Chunk(id, Slice(chunkData', i'), NoErr), "full")
                   ELSE pc' = "select" /\ UNCHANGED <<pending, site>>
    /\ inFlight' = inFlight - 1
    /\ afterDone' = IF LeavesLoop(pc', site') THEN NoCalls ELSE afterDone
    /\ UNCHANGED <<id, line, err, pos>>
    /\ UNCHANGED <<inputVars, Ch, chClosed, doneClosed, finished, cancelled, readerClosed>>
    /\ UNCHANGED <<callerVars, consumerVars, sentLog>>

\* ProcessEOF sending no final chunk when the buffer is empty
ProcessEOF_NoEmptyChunk ==
    /\ ~panicked
    /\ pc = "processEOF"
    /\ \E r \in { ProcessFunc(fn, line) } :
           IF r.err # NoErr
           THEN /\ GoSend(Chunk(id, Slice(chunkData, i), r.err), "eofErr")
                /\ UNCHANGED <<chunkData, i, panicked>>
           ELSE /\ IF r.ok THEN Store(r.result)
                           ELSE UNCHANGED <<chunkData, i, panicked>>
                /\ IF ~panicked' /\ i' > 0
                   THEN GoSend(Chunk(id, Slice(chunkData', i'), NoErr), "eof")
                   ELSE /\ pc' = IF panicked' THEN pc ELSE "close"
                        /\ site' = IF panicked' THEN site ELSE "eof"
                        /\ UNCHANGED pending
    /\ inFlight' = inFlight - 1
    /\ afterDone' = IF LeavesLoop(pc', site') THEN NoCalls ELSE afterDone
    /\ UNCHANGED <<id, line, err, pos>>
    /\ UNCHANGED <<inputVars, Ch, chClosed, doneClosed, finished, cancelled, readerClosed>>
    /\ UNCHANGED <<callerVars, consumerVars, sentLog>>

\* the branch err == io.EOF: the rest of the file goes through ProcessFunc
ProcessEOF ==
    /\ ~panicked
    /\ pc = "processEOF"
    /\ \E r \in { ProcessFunc(fn, line) } :
           IF r.err # NoErr
           THEN /\ GoSend(Chunk(id, Slice(chunkData, i), r.err), "eofErr")
                /\ UNCHANGED <<chunkData, i, panicked>>
           ELSE /\ IF r.ok THEN Store(r.result)
                           ELSE UNCHANGED <<chunkData, i, panicked>>
                /\ IF ~panicked'
                   THEN GoSend(Chunk(id, Slice(chunkData', i'), NoErr), "eof")
                   ELSE UNCHANGED <<pc, pending, site>>
    /\ inFlight' = inFlight - 1
    /\ afterDone' = IF LeavesLoop(pc', site') THEN NoCalls ELSE afterDone
    /\ UNCHANGED <<id, line, err, pos>>
    /\ UNCHANGED <<inputVars, Ch, chClosed, doneClosed, finished, cancelled, readerClosed>>
    /\ UNCHANGED <<callerVars, consumerVars, sentLog>>

\* NextID without the increment
NextID_Stuck(n) == n

\* id++ after a send
NextID(n) == n + 1

\* AfterSend without the return after the chunk of a transform failure
AfterSend_ErrContinues ==
    /\ sentLog' = Append(sentLog, [chunk |-> pending, afterCancel |-> cancelReturned])
    /\ id' = NextID(id)
    /\ IF site = "full"
       THEN /\ chunkData' = MakeChunkData(ChunkSize)
            /\ i' = 0
            /\ pc' = "select"
       ELSE /\ pc' = IF site = "procErr" THEN "select" ELSE "close"
            /\ UNCHANGED <<chunkData, i>>
    /\ UNCHANGED <<line, err, pending, site, pos, inFlight, afterDone>>

\* AfterSend without i = 0 after the send of a full chunk
AfterSend_KeepsIndex ==
    /\ sentLog' = Append(sentLog, [chunk |-> pending, afterCancel |-> cancelReturned])
    /\ id' = NextID(id)
    /\ IF site = "full"
       THEN /\ chunkData' = MakeChunkData(ChunkSize)
            /\ pc' = "select"
            /\ UNCHANGED i
       ELSE /\ pc' = "close"
            /\ UNCHANGED <<chunkData, i>>
    /\ UNCHANGED <<line, err, pending, site, pos, inFlight, afterDone>>

\* what follows a completed send: id++, and either the next chunk or the exit
AfterSend ==
    /\ sentLog' = Append(sentLog, [chunk |-> pending, afterCancel |-> cancelReturned])
    /\ id' = NextID(id)
    /\ IF site = "full"
       THEN /\ chunkData' = MakeChunkData(ChunkSize)
            /\ i' = 0
            /\ pc' = "select"
       ELSE /\ pc' = "close"
            /\ UNCHANGED <<chunkData, i>>
    /\ UNCHANGED <<line, err, pending, site, pos, inFlight, afterDone>>

\* Send into a channel that takes one chunk more than its capacity
Send_OverCapacity ==
    /\ ~panicked
    /\ pc = "send"
    /\ IF chClosed > 0
       THEN /\ panicked' = TRUE
            /\ UNCHANGED <<Ch, chunkerVars, sentLog>>
       ELSE /\ Len(Ch) <= BufferSize
            /\ Ch' = Append(Ch, pending)
            /\ AfterSend
            /\ UNCHANGED panicked
    /\ UNCHANGED <<chClosed, doneClosed, finished, cancelled, readerClosed>>
    /\ UNCHANGED <<inputVars, callerVars, consumerVars>>

\* reader.Ch <- chunk, when the channel has room (a closed channel panics)
Send ==
    /\ ~panicked
    /\ pc = "send"
    /\ IF chClosed > 0
       THEN /\ panicked' = TRUE
            /\ UNCHANGED <<Ch, chunkerVars, sentLog>>
       ELSE /\ Len(Ch) < BufferSize
            /\ Ch' = Append(Ch, pending)
            /\ AfterSend
            /\ UNCHANGED panicked
    /\ UNCHANGED <<chClosed, doneClosed, finished, cancelled, readerClosed>>
    /\ UNCHANGED <<inputVars, callerVars, consumerVars>>

\* CloseCh without the close
CloseCh_Missing ==
    /\ ~panicked
    /\ pc = "close"
    /\ pc' = "finish"
    /\ UNCHANGED <<chClosed, panicked>>
    /\ UNCHANGED <<i, id, chunkData, line, err, pending, site, pos, inFlight, afterDone>>
    /\ UNCHANGED <<Ch, doneClosed, finished, cancelled, readerClosed>>
    /\ UNCHANGED <<inputVars, callerVars, consumerVars, sentLog>>

\* close(reader.Ch)
CloseCh ==
    /\ ~panicked
    /\ pc = "close"
    /\ IF chClosed > 0
       THEN panicked' = TRUE /\ UNCHANGED <<chClosed, pc>>
       ELSE chClosed' = chClosed + 1 /\ pc' = "finish" /\ UNCHANGED panicked
    /\ UNCHANGED <<i, id, chunkData, line, err, pending, site, pos, inFlight, afterDone>>
    /\ UNCHANGED <<Ch, doneClosed, finished, cancelled, readerClosed>>
    /\ UNCHANGED <<inputVars, callerVars, consumerVars, sentLog>>

\* reader.finished = true
SetFinished ==
    /\ ~panicked
    /\ pc = "finish"
    /\ finished' = TRUE
    /\ pc' = "closeReader"
    /\ UNCHANGED <<i, id, chunkData, line, err, pending, site, pos, inFlight, afterDone>>
    /\ UNCHANGED <<Ch, chClosed, doneClosed, cancelled, readerClosed, panicked>>
    /\ UNCHANGED <<inputVars, callerVars, consumerVars, sentLog>>

\* CloseReader without the return: the loop goes on to the next read
CloseReader_NoReturn ==
    /\ ~panicked
    /\ pc = "closeReader"
    /\ readerClosed' = readerClosed + 1
    /\ pc' = "read"
    /\ UNCHANGED <<i, id, chunkData, line, err, pending, site, pos, inFlight, afterDone>>
    /\ UNCHANGED <<Ch, chClosed, doneClosed, finished, cancelled, panicked>>
    /\ UNCHANGED <<inputVars, callerVars, consumerVars, sentLog>>

\* CloseReader closing the source a second time (as a deferred Close would)
CloseReader_Twice ==
    /\ ~panicked
    /\ pc = "closeReader"
    /\ readerClosed' = readerClosed + 2
    /\ pc' = "done"
    /\ afterDone' = NoCalls
    /\ UNCHANGED <<i, id, chunkData, line, err, pending, site, pos, inFlight>>
    /\ UNCHANGED <<Ch, chClosed, doneClosed, finished, cancelled, panicked>>
    /\ UNCHANGED <<inputVars, callerVars, consumerVars, sentLog>>

\* reader.reader.Close(); return
CloseReader ==
    /\ ~panicked
    /\ pc = "closeReader"
    /\ readerClosed' = readerClosed + 1
    /\ pc' = "done"
    /\ afterDone' = NoCalls
    /\ UNCHANGED <<i, id, chunkData, line, err, pending, site, pos, inFlight>>
    /\ UNCHANGED <<Ch, chClosed, doneClosed, finished, cancelled, panicked>>
    /\ UNCHANGED <<inputVars, callerVars, consumerVars, sentLog>>

Chunker ==
    \/ SelectDone \/ Read \/ Call \/ Process \/ ProcessEOF
    \/ Send \/ CloseCh \/ SetFinished \/ CloseReader

\* ------------------------------------------------------------ the consumer

\* chunk := <-reader.Ch yields a chunk: the oldest buffered one, or, on an
\* unbuffered channel, the one of the send statement the goroutine waits at.
Receive ==
    /\ ~panicked
    /\ ~sawClose
    /\ \/ /\ Len(Ch) > 0
          /\ received' = Append(received, Head(Ch))
          /\ Ch' = Tail(Ch)
          /\ UNCHANGED <<chunkerVars, sentLog>>
       \/ /\ Len(Ch) = 0
          /\ BufferSize = 0
          /\ pc = "send"
          /\ chClosed = 0
          /\ received' = Append(received, pending)
          /\ AfterSend
          /\ UNCHANGED Ch
    /\ UNCHANGED sawClose
    /\ UNCHANGED <<chClosed, doneClosed, finished, cancelled, readerClosed, panicked>>
    /\ UNCHANGED <<inputVars, callerVars>>

\* a receive on the closed, drained channel: `for chunk := range reader.Ch` ends
ObserveClose ==
    /\ ~panicked
    /\ ~sawClose
    /\ Len(Ch) = 0
    /\ chClosed > 0
    /\ sawClose' = TRUE
    /\ UNCHANGED received
    /\ UNCHANGED <<inputVars, chunkerVars, sharedVars, callerVars, sentLog>>

\* ------------------------------------------------------------- Cancel()

\* a caller enters Cancel(), for the first time or once more
CancelCall(c) ==
    /\ ~panicked
    /\ cpc[c] = "idle"
    /\ cpc' = [cpc EXCEPT ![c] = "check"]
    /\ lateCall' = [lateCall EXCEPT ![c] = sawClose]
    /\ UNCHANGED <<wrote, cancelReturned>>
    /\ UNCHANGED <<inputVars, chunkerVars, sharedVars, consumerVars, sentLog>>

\* The values `!reader.finished && !reader.cancelled` can read.  Neither read
\* is ordered with the write of another goroutine, so each may still see the
\* initial false; a caller sees its own write of cancelled.
FinishedSeen == { finished, FALSE }
CancelledSeen_Unchecked(c) == { FALSE }
CancelledSeen(c) == IF c \in wrote THEN { cancelled } ELSE { cancelled, FALSE }

\* if !reader.finished && !reader.cancelled
CancelCheck(c) ==
    /\ ~panicked
    /\ cpc[c] = "check"
    /\ \E f \in FinishedSeen, k \in CancelledSeen(c) :
          /\ cpc' = [cpc EXCEPT ![c] = IF ~f /\ ~k THEN "closeDone" ELSE "idle"]
          /\ lateCall' = [lateCall EXCEPT ![c] = ~f /\ ~k /\ lateCall[c]]
    /\ UNCHANGED <<wrote, cancelReturned>>
    /\ UNCHANGED <<inputVars, chunkerVars, sharedVars, consumerVars, sentLog>>

\* close(reader.done)   (closing a closed channel panics)
CancelCloseDone(c) ==
    /\ ~panicked
    /\ cpc[c] = "closeDone"
    /\ IF doneClosed > 0
       THEN panicked' = TRUE /\ UNCHANGED <<doneClosed, cpc>>
       ELSE /\ doneClosed' = doneClosed + 1
            /\ cpc' = [cpc EXCEPT ![c] = "setCancelled"]
            /\ UNCHANGED panicked
    /\ UNCHANGED <<wrote, lateCall, cancelReturned>>
    /\ UNCHANGED <<Ch, chClosed, finished, cancelled, readerClosed>>
    /\ UNCHANGED <<inputVars, chunkerVars, consumerVars, sentLog>>

\* reader.cancelled = true; return
CancelSetCancelled(c) ==
    /\ ~panicked
    /\ cpc[c] = "setCancelled"
    /\ cancelled' = TRUE
    /\ wrote' = wrote \cup {c}
    /\ cpc' = [cpc EXCEPT ![c] = "idle"]
    /\ lateCall' = [lateCall EXCEPT ![c] = FALSE]
    /\ cancelReturned' = TRUE
    /\ UNCHANGED <<Ch, chClosed, doneClosed, finished, readerClosed, panicked>>
    /\ UNCHANGED <<inputVars, chunkerVars, consumerVars, sentLog>>

Cancel(c) ==
    \/ CancelCall(c) \/ CancelCheck(c) \/ CancelCloseDone(c) \/ CancelSetCancelled(c)

\* ------------------------------------------------------- specifications

Next ==
    \/ SelectDone
    \/ Read
    \/ Call
    \/ Process
    \/ ProcessEOF
    \/ Send
    \/ CloseCh
    \/ SetFinished
    \/ CloseReader
    \/ Receive
    \/ ObserveClose
    \/ \E c \in Callers : CancelCall(c)
    \/ \E c \in Callers : CancelCheck(c)
    \/ \E c \in Callers : CancelCloseDone(c)
    \/ \E c \in Callers : CancelSetCancelled(c)

\* one caller of Cancel(), any scheduling
Spec == Init /\ [][Next]_vars

\* several callers of Cancel() running concurrently
SpecConcurrent == InitConcurrent /\ [][Next]_vars

\* one caller of Cancel(), NewBufferedReader called with any arguments
SpecAnyArgs == InitAnyArgs /\ [][Next]_vars


\* the weakly fair goroutine of run(); the consumer and the callers of
\* Cancel() take steps or not as they please
FairSpec == Init /\ [][Next]_vars /\ WF_vars(Chunker)

\* as FairSpec, with a consumer that keeps receiving until reader.Ch is closed
LiveSpec ==
    Init /\ [][Next]_vars /\ WF_vars(Chunker) /\ WF_vars(Receive) /\ WF_vars(ObserveClose)

\* ------------------------------------------------- reference definitions

\* what successive ReadString calls return from offset p on, up to the first error
RECURSIVE AllReads(_, _, _)
AllReads(s, p, e) ==
    LET r == ReadString(s, p, e)
    IN  IF r.err = NoErr THEN <<r.line>> \o AllReads(s, r.pos, e) ELSE <<r.line>>

\* the lines of the file: the delimited ones, and a last one without delimiter
InputLines(s) ==
    LET rs == AllReads(s, 0, EOF)
    IN  IF rs[Len(rs)] = <<>> THEN SubSeq(rs, 1, Len(rs) - 1) ELSE rs

\* the transform applied line by line, in order: the values it keeps
RECURSIVE KeptOutputs(_, _)
KeptOutputs(f, ls) ==
    IF ls = <<>> THEN <<>>
    ELSE LET r == ProcessFunc(f, Head(ls))
         IN  (IF r.err = NoErr /\ r.ok THEN <<r.result>> ELSE <<>>)
                 \o KeptOutputs(f, Tail(ls))

NeverFails(f, ls) == \A k \in 1..Len(ls) : ProcessFunc(f, ls[k]).err = NoErr

\* the Data lists of a sequence of chunks, concatenated
RECURSIVE ConcatData(_)
ConcatData(cs) ==
    IF cs = <<>> THEN <<>> ELSE Head(cs).Data \o ConcatData(Tail(cs))

SentChunks == [p \in 1..Len(sentLog) |-> sentLog[p].chunk]

Exiting == pc \in { "close", "finish", "closeReader", "done" }

\* ------------------------------------------------------------------ claims

\* C1: the IDs of the chunks the consumer receives are, in receive order,
\* 0, 1, 2, ...: the p-th chunk received has ID p - 1 (the terminal chunk
\* that carries an error included).
C1_ReceivedIDsCountFromZero ==
    \A p \in 1..Len(received) : received[p].ID = p - 1

C1_Witness ==
    /\ BufferSize = 2
    /\ Len(received) = 1 /\ received[1].ID = 0
    /\ Len(Ch) = 2 /\ Ch[1].ID = 1 /\ Ch[2].ID = 2

\* C2 (as claimed): after a run to the end of the file without transform
\* failure and without cancellation, the values the consumer has received are
\* exactly the transform's outputs for the kept lines of the file, in order.
C2_DeliveredEqualsKeptLines ==
    ( /\ sawClose
      /\ ending = EOF
      /\ doneClosed = 0
      /\ NeverFails(fn, AllReads(stream, 0, EOF)) )
    => ConcatData(received) = KeptOutputs(fn, InputLines(stream))

\* C3: reader.Ch is closed at most once, it has been closed once when the
\* goroutine has returned, and the goroutine is past every send statement
\* from the moment the channel is closed (no send on the closed channel).
C3_ChClosedOnce ==
    /\ chClosed <= 1
    /\ pc = "done" => chClosed = 1
    /\ chClosed = 1 => pc \in { "finish", "closeReader", "done" }

C3_Witness ==
    /\ pc = "done"
    /\ chClosed = 1
    /\ doneClosed = 1
    /\ Len(sentLog) >= 2

\* C4: with one caller of Cancel(), whatever the interleaving of its calls
\* with the goroutine, neither reader.done nor reader.Ch is closed a second
\* time and nothing panics.
C4_SingleCallerNeverPanics ==
    NumCallers = 1 => (doneClosed <= 1 /\ chClosed <= 1 /\ ~panicked)

\* a further call of Cancel() is under way after an earlier one closed done
\* and after the goroutine has returned
C4_Witness ==
    /\ NumCallers = 1
    /\ cpc[1] = "check"
    /\ cancelReturned
    /\ doneClosed = 1
    /\ pc = "done"

\* C5 (as claimed): with several concurrent callers of Cancel(), reader.done
\* is never closed twice and nothing panics.
C5_ConcurrentCancelSafe ==
    doneClosed <= 1 /\ ~panicked


\* Finished: the output channel is closed and the line source is closed
Finished == chClosed = 1 /\ readerClosed = 1

\* C6 (as claimed): once Cancel() has closed reader.done, the pipeline
\* eventually is Finished, whatever the consumer does, given only a fairly
\* scheduled goroutine.
C6_CancelLeadsToFinished == (doneClosed > 0) ~> Finished

\* C7: with a fairly scheduled goroutine and a consumer that keeps receiving,
\* every run (end of file, read failure, transform failure, cancellation)
\* eventually closes reader.Ch.
C7_EventuallyClosed == <>(chClosed = 1)

C7_Witness ==
    /\ chClosed = 1
    /\ sawClose
    /\ Len(received) >= 2
    /\ received[Len(received)].Err = ErrorCanceled

\* C8: only the last chunk sent can carry an error, and once a chunk with an
\* error has been sent the goroutine is on its way out (close, finished,
\* Close, return), so nothing is sent after it.
C8_ErrorChunkIsLast ==
    /\ \A p \in 1..Len(sentLog) : sentLog[p].chunk.Err # NoErr => p = Len(sentLog)
    /\ (Len(sentLog) > 0 /\ sentLog[Len(sentLog)].chunk.Err # NoErr) => Exiting

C8_Witness ==
    /\ Len(sentLog) >= 2
    /\ sentLog[Len(sentLog)].chunk.Err = AtoiFailure
    /\ chClosed = 1

\* the lines ProcessFunc is given when nothing stops the loop early
ProcessedLines ==
    LET rs == AllReads(stream, 0, ending)
    IN  IF ending = EOF THEN rs ELSE SubSeq(rs, 1, Len(rs) - 1)

\* the number N of the first line the transform fails on (0 if none)
FirstFailing ==
    LET lines == ProcessedLines
    IN  IF NeverFails(fn, lines) THEN 0
        ELSE CHOOSE n \in 1..Len(lines) :
                /\ ProcessFunc(fn, lines[n]).err # NoErr
                /\ \A k \in 1..(n - 1) : ProcessFunc(fn, lines[k]).err = NoErr

\* C9: when a chunk with the transform's error is sent, its Data is what the
\* buffer holds of the kept values of the lines before the failing line N
\* (those after the last full chunk), and all chunks sent hold together
\* exactly the kept values of the lines before N, in order.
C9_ErrorChunkKeepsBuffer ==
    (Len(sentLog) > 0 /\ sentLog[Len(sentLog)].chunk.Err = AtoiFailure) =>
        LET N == FirstFailing
            kept == KeptOutputs(fn, SubSeq(ProcessedLines, 1, N - 1))
            m == Len(kept)
        IN  /\ N > 0
            /\ sentLog[Len(sentLog)].chunk.Data = SubSeq(kept, m - (m % ChunkSize) + 1, m)
            /\ ConcatData(SentChunks) = kept
            /\ sawClose => ConcatData(received) = kept

C9_Witness ==
    /\ Len(sentLog) > 0
    /\ sentLog[Len(sentLog)].chunk.Err = AtoiFailure
    /\ sentLog[Len(sentLog)].chunk.Data # <<>>
    /\ sawClose

\* the chunks sent after a call of Cancel() had returned
SentAfterCancel == SelectSeq(sentLog, LAMBDA e : e.afterCancel)

\* C10 (as claimed): every chunk sent after a call of Cancel() has returned
\* carries ErrorCanceled, and there is at most one.
C10_OnlyCancelChunkAfterCancel ==
    /\ \A p \in 1..Len(SentAfterCancel) : SentAfterCancel[p].chunk.Err = ErrorCanceled
    /\ Len(SentAfterCancel) <= 1

\* C10 (amended): after a call of Cancel() has returned at most two chunks
\* are sent; a chunk with ErrorCanceled is the last one; and if there are two,
\* the first has a nil error and the second carries ErrorCanceled.
C10_AtMostOneChunkBeforeCancelChunk ==
    /\ Len(SentAfterCancel) <= 2
    /\ \A p \in 1..Len(SentAfterCancel) :
          SentAfterCancel[p].chunk.Err = ErrorCanceled => p = Len(SentAfterCancel)
    /\ Len(SentAfterCancel) = 2 =>
          /\ SentAfterCancel[1].chunk.Err = NoErr
          /\ SentAfterCancel[2].chunk.Err = ErrorCanceled

C10_Witness ==
    /\ Len(SentAfterCancel) = 2
    /\ SentAfterCancel[1].chunk.Err = NoErr
    /\ SentAfterCancel[2].chunk.Err = ErrorCanceled
    /\ chClosed = 1


\* C11 (as claimed): after a run to the end of the file without transform
\* failure and without cancellation, the number of values the consumer has
\* received is the number of lines of the file the transform keeps.
C11_CountEqualsKeptLines ==
    ( /\ sawClose
      /\ ending = EOF
      /\ doneClosed = 0
      /\ NeverFails(fn, AllReads(stream, 0, EOF)) )
    => Len(ConcatData(received)) = Len(KeptOutputs(fn, InputLines(stream)))

\* the delimited lines in front of the place where ReadString fails
LinesBeforeFailure ==
    LET rs == AllReads(stream, 0, ending) IN SubSeq(rs, 1, Len(rs) - 1)

LastSent == sentLog[Len(sentLog)].chunk

\* the values of kept that the buffer holds: those after the last full chunk
Buffered(kept) ==
    SubSeq(kept, Len(kept) - (Len(kept) % ChunkSize) + 1, Len(kept))

\* C12: a chunk with the read error is the last one sent; its Data is what
\* the buffer holds of the kept values of the lines read before the failure,
\* nothing of the failed read is in any chunk, and the goroutine goes on to
\* close reader.Ch.  When the source fails and neither a transform error nor
\* a cancellation ended the loop earlier, the last chunk carries the read error.
C12_ReadErrorChunk ==
    /\ (Len(sentLog) > 0 /\ LastSent.Err = ReadFailure) =>
          LET kept == KeptOutputs(fn, LinesBeforeFailure)
          IN  /\ ending = ReadFailure
              /\ LastSent.Data = Buffered(kept)
              /\ ConcatData(SentChunks) = kept
              /\ Exiting
              /\ inFlight = 0
    /\ ( /\ Exiting
         /\ ending = ReadFailure
         /\ NeverFails(fn, LinesBeforeFailure)
         /\ LastSent.Err # ErrorCanceled )
       => LastSent.Err = ReadFailure

C12_Witness ==
    /\ sawClose
    /\ Len(received) >= 1
    /\ received[Len(received)].Err = ReadFailure
    /\ received[Len(received)].Data # <<>>

\* C13: the source is closed at most once, only as the last step of the
\* goroutine of run() (so nothing is read after it), and it has been closed
\* once when the goroutine has returned, whichever way the loop ended.
C13_ReaderClosedOnce ==
    /\ readerClosed <= 1
    /\ readerClosed = 1 <=> pc = "done"
    /\ pc = "done" => site \in { "cancel", "eofErr", "eof", "readErr", "procErr" }

C13_Witness ==
    /\ pc = "done"
    /\ readerClosed = 1
    /\ site = "cancel"
    /\ pos < Len(stream)


\* C14 (as claimed): a call of Cancel() begun after the consumer has seen
\* reader.Ch closed is a no-op: it does not go on to close reader.done or to
\* assign reader.cancelled.
C14_CancelAfterFinishedIsNoOp ==
    \A c \in Callers : lateCall[c] => cpc[c] \notin { "closeDone", "setCancelled" }

MaxOf(a, b) == IF a >= b THEN a ELSE b

\* C15 (as claimed): the effective buffer size is max(1, bufferSize) and the
\* effective chunk size is max(1, chunkSize).
C15_BothClampedToOne ==
    /\ BufferSize = MaxOf(1, bufferSizeArg)
    /\ ChunkSize = MaxOf(1, chunkSizeArg)

\* C15 (amended): the effective buffer size, the capacity of reader.Ch, is
\* max(0, bufferSize); the effective chunk size, the length of the chunk
\* buffer, is max(1, chunkSize).
C15_ClampedToZeroAndOne ==
    /\ BufferSize = MaxOf(0, bufferSizeArg)
    /\ Len(Ch) <= MaxOf(0, bufferSizeArg)
    /\ ChunkSize = MaxOf(1, chunkSizeArg)
    /\ DOMAIN chunkData = 0..(MaxOf(1, chunkSizeArg) - 1)

C15_Witness ==
    /\ bufferSizeArg < 0
    /\ chunkSizeArg < 1
    /\ BufferSize = 0
    /\ ChunkSize = 1
    /\ Len(received) >= 2
    /\ sawClose

\* C16: with bufferSize 1 and chunkSize 1 the number of ProcessFunc calls
\* entered and not yet returned is 0 or 1 at every instant.
C16_OneTransformInFlight ==
    (bufferSizeArg = 1 /\ chunkSizeArg = 1) => inFlight \in { 0, 1 }

C16_Witness ==
    /\ bufferSizeArg = 1
    /\ chunkSizeArg = 1
    /\ inFlight = 1
    /\ Len(Ch) = 1
    /\ Len(received) = 1


\* C17: the goroutine comes to a read only from the select, and only when the
\* select found reader.done open; a select that finds reader.done closed
\* goes, without waiting, to the send of one chunk with the next ID, the
\* partial buffer and ErrorCanceled; from then on that chunk is the only one
\* sent, nothing more is read, ProcessFunc is not called, and the goroutine
\* only closes reader.Ch and the source and returns.
C17_CancelCheckedBeforeRead ==
    [][ /\ (pc # "read" /\ pc' = "read") => (pc = "select" /\ doneClosed = 0)
        /\ (pc = "select" /\ doneClosed > 0 /\ pc' # "select") =>
              /\ pc' = "send"
              /\ site' = "cancel"
              /\ pending' = Chunk(Len(sentLog), Slice(chunkData, i), ErrorCanceled)
        /\ (pc = "select" /\ doneClosed > 0) => ENABLED SelectDone
        /\ site = "cancel" =>
              /\ pos' = pos
              /\ inFlight' = 0
              /\ pc' \in { "send", "close", "finish", "closeReader", "done" }
              /\ Len(sentLog') > Len(sentLog) =>
                    /\ pc = "send"
                    /\ pc' = "close"
                    /\ sentLog'[Len(sentLog')].chunk = pending
    ]_vars

C17_Witness ==
    /\ site = "cancel"
    /\ pc = "done"
    /\ LastSent.Err = ErrorCanceled
    /\ LastSent.Data # <<>>
    /\ chClosed = 1
    /\ readerClosed = 1
    /\ pos < Len(stream)


\* the number of the line that gives the m-th kept value (0 for m = 0, and
\* -1 if the lines hold fewer than m kept values)
\* (found by a scan of the lines ls from line n + 1 on, m values to go)
RECURSIVE ScanKept(_, _, _)
ScanKept(ls, n, m) ==
    IF m = 0 THEN n
    ELSE IF n >= Len(ls) THEN -1
    ELSE LET r == ProcessFunc(fn, ls[n + 1])
         IN  ScanKept(ls, n + 1, IF r.err = NoErr /\ r.ok THEN m - 1 ELSE m)

LinesUpToKept(m) == ScanKept(ProcessedLines, 0, m)

\* chunk p of the chunks sent so far is not the final one
NonFinal(p) == p < Len(sentLog) \/ (p = Len(sentLog) /\ ~Exiting)

\* C18 (as claimed): every chunk other than the final one covers exactly
\* ChunkSize consecutive lines: chunk p holds the kept values of the lines
\* (p-1)*ChunkSize+1 .. p*ChunkSize, fewer than ChunkSize if some are skipped.
C18_ChunkCoversChunkSizeLines ==
    \A p \in 1..Len(sentLog) :
        NonFinal(p) =>
            sentLog[p].chunk.Data =
                KeptOutputs(fn, SubSeq(ProcessedLines, (p - 1) * ChunkSize + 1, p * ChunkSize))

\* C18 (amended): the chunks partition the lines into consecutive runs; a
\* chunk other than the final one holds exactly ChunkSize values, the kept
\* values of the run of lines that follows the previous chunk's run and ends
\* with the line giving the ChunkSize-th kept value of the run: ChunkSize
\* lines or more, the skipped lines among them not counting towards ChunkSize.
C18_ChunkCoversChunkSizeKeptValues ==
    LET lines == ProcessedLines
    IN  \A p \in 1..Len(sentLog) :
            NonFinal(p) =>
                LET first == ScanKept(lines, 0, (p - 1) * ChunkSize) + 1
                    last == ScanKept(lines, 0, p * ChunkSize)
                IN  /\ sentLog[p].chunk.Err = NoErr
                    /\ Len(sentLog[p].chunk.Data) = ChunkSize
                    /\ sentLog[p].chunk.Data = KeptOutputs(fn, SubSeq(lines, first, last))
                    /\ last - first + 1 >= ChunkSize

C18_Witness ==
    /\ Len(sentLog) >= 2
    /\ LinesUpToKept(ChunkSize) > ChunkSize
    /\ Len(sentLog[1].chunk.Data) = ChunkSize
    /\ sawClose


\* the kept values of the delimited lines of a file that ends at io.EOF
KeptDelimited == KeptOutputs(fn, SubSeq(ProcessedLines, 1, Len(ProcessedLines) - 1))

\* what ProcessFunc keeps of the rest of the file after the last delimiter
KeptRest == KeptOutputs(fn, <<ProcessedLines[Len(ProcessedLines)]>>)

\* C19 (as claimed): once the loop has ended at io.EOF without error the last
\* chunk has a nil error; the empty file gives one chunk, with ID 0; and a
\* file whose kept values are a multiple of ChunkSize gives that many full
\* chunks and one additional final chunk.
C19_AdditionalFinalChunk ==
    (site = "eof" /\ Exiting) =>
        LET kept == KeptOutputs(fn, InputLines(stream))
        IN  /\ LastSent.Err = NoErr
            /\ stream = <<>> => (Len(sentLog) = 1 /\ LastSent.ID = 0)
            /\ Len(kept) % ChunkSize = 0 => Len(sentLog) = (Len(kept) \div ChunkSize) + 1

\* C19 (amended): once the loop has ended at io.EOF without error, exactly one chunk
\* has been sent beyond the full ones: it has a nil error, the next ID and
\* the buffer (what is left of the kept values after the full chunks, and
\* what ProcessFunc keeps of the rest of the file), empty or not.  The empty
\* file gives one chunk, with ID 0.  The full chunks are those of the kept
\* values of the delimited lines: a kept last line without delimiter goes
\* into the final chunk.  Every run to io.EOF without transform error and
\* without cancellation ends this way.
C19_FinalChunkAtEOF ==
    /\ (site = "eof" /\ Exiting) =>
          /\ ending = EOF
          /\ Len(sentLog) = (Len(KeptDelimited) \div ChunkSize) + 1
          /\ LastSent.Err = NoErr
          /\ LastSent.ID = Len(KeptDelimited) \div ChunkSize
          /\ LastSent.Data = Buffered(KeptDelimited) \o KeptRest
          /\ \A p \in 1..(Len(sentLog) - 1) : Len(sentLog[p].chunk.Data) = ChunkSize
          /\ stream = <<>> => (Len(sentLog) = 1 /\ LastSent.ID = 0)
    /\ ( /\ pc = "done"
         /\ ending = EOF
         /\ NeverFails(fn, ProcessedLines)
         /\ doneClosed = 0 )
       => site = "eof"

C19_Witness ==
    /\ pc = "done"
    /\ site = "eof"
    /\ Len(KeptDelimited) = ChunkSize
    /\ Len(sentLog) = 2
    /\ LastSent.Data = <<>>
    /\ sawClose

\* the number of delimited lines among the first p bytes of the file
DelimitedIn(p) == Cardinality({k \in 1..p : stream[k] = NL})

\* C20: the chunks sent and not yet received are those in reader.Ch, at most
\* BufferSize of them; while a full chunk waits at the send statement the
\* lines read are exactly those up to the one that completed it; and the
\* lines read never go beyond the one completing chunk number
\* received + BufferSize + 1.
C20_ChannelBounded ==
    /\ Len(Ch) <= BufferSize
    /\ Len(sentLog) - Len(received) = Len(Ch)
    /\ (pc = "send" /\ site = "full") =>
          DelimitedIn(pos) = LinesUpToKept((Len(sentLog) + 1) * ChunkSize)
    /\ LET ahead == LinesUpToKept((Len(received) + BufferSize + 1) * ChunkSize)
       IN  ahead >= 0 => DelimitedIn(pos) <= ahead

C20_Witness ==
    /\ BufferSize = 1 /\ Len(Ch) = 1
    /\ pc = "send" /\ site = "full"
    /\ received = <<>>
    /\ pos < Len(stream)

\* C21: from close(reader.done) on, which precedes the return of Cancel(),
\* the goroutine calls ReadString at most once more and ProcessFunc at most
\* once more, whatever its position when done is closed; the next select
\* takes it out of the loop.
C21_OneMoreReadAndTransform ==
    /\ afterDone.reads <= 1
    /\ afterDone.calls <= 1
    /\ afterDone # NoCalls => doneClosed > 0

C21_Witness ==
    /\ cancelReturned
    /\ afterDone = [reads |-> 1, calls |-> 1]
    /\ pc = "send" /\ site = "full"
    /\ pos < Len(stream)

\* C22: the index i is within 0..ChunkSize-1 whenever a line is read or a
\* value is about to be stored, on the io.EOF path too, so no store goes past
\* the buffer of ChunkSize slots and the goroutine never panics; every chunk
\* sent holds at most ChunkSize values, and a chunk with a nil error other
\* than the final one holds exactly ChunkSize.
C22_IndexWithinBuffer ==
    /\ ~panicked
    /\ DOMAIN chunkData = 0..(ChunkSize - 1)
    /\ 0 <= i /\ i <= ChunkSize
    /\ pc \in {"select", "read", "call", "callEOF", "process", "processEOF"} => i < ChunkSize
    /\ \A p \in 1..Len(sentLog) :
          /\ Len(sentLog[p].chunk.Data) <= ChunkSize
          /\ (sentLog[p].chunk.Err = NoErr /\ NonFinal(p)) =>
                Len(sentLog[p].chunk.Data) = ChunkSize

C22_Witness ==
    /\ pc = "send" /\ site = "eof"
    /\ i = ChunkSize
    /\ Len(pending.Data) = ChunkSize
    /\ Len(sentLog) >= 1
    /\ Len(received) >= 1

====
